---- MODULE Spec2Model ----
(***************************************************************************)
(* A model of the OCPP client of client.go: the Client (endpoint, HTTP     *)
(* client handle, logger), the dispatcher sendRequest and the eight        *)
(* per-action entry points, called by concurrent goroutines against an    *)
(* HTTP transport that answers each POST with an error or a response.      *)
(***************************************************************************)
EXTENDS Integers, Sequences, FiniteSets, TLC

\* ------------------------------------------------------------ the callers
\* The goroutines that call the one Client.
Callers == {"g1", "g2"}

\* The largest integer a response body's numeral may denote in the model.
MaxInt == 300

\* Go's nil (a nil error, a nil pointer).
Nil == [nil |-> TRUE]

\* ------------------------------------------------------ the configuration
Endpoints == {"http://cs.example/ocpp"}

DefaultHTTPClient == "DefaultHTTPClient"

\* The handles SetHTTPClient may be given.
Transports == {DefaultHTTPClient, "custom"}

NopLogger == "zap.NewNop"

\* The loggers NewClient may be given (nil included).
GivenLoggers == {"nil", "zap.L"}

NewClientNoNilCheck(ep, lg) ==
    [endpoint |-> ep, client |-> DefaultHTTPClient, logger |-> lg]

NewClient(ep, lg) ==
    [endpoint |-> ep,
     client   |-> DefaultHTTPClient,
     logger   |-> IF lg = "nil" THEN NopLogger ELSE lg]

\* --------------------------------------------------- the status vocabularies
DataTransferStatus == {"Accepted", "Rejected"}

RegistrationStatus ==
    {"Accepted", "Pending", "Rejected", "Scheduled", "Unscheduled", "Recurring",
     "Cancelled", "Installation", "Registration", "Deregistration"}

AuthorizationStatus == {"Accepted", "Blocked", "Expired", "Invalid", "ConcurrentTx"}

TransactionEventStatus == {"Accepted", "Rejected"}

\* ------------------------------------------------------------ xml.Marshal
\* A struct value as encoding/xml sees it: its type name and its fields in
\* declaration order, each with its tag, kind, value and omitempty flag.
Field(tag, kind, val, omitempty) ==
    [tag |-> tag, kind |-> kind, val |-> val, omitempty |-> omitempty]

Struct(name, fields) == [type |-> name, fields |-> fields]

\* A value encoding/xml cannot serialise (a channel, a func, a map).
Unsupported == [type |-> "chan", fields |-> <<>>]

RECURSIVE EscapeText(_)
EscapeText(s) ==
    IF Len(s) = 0 THEN ""
    ELSE LET ch == SubSeq(s, 1, 1)
             out == CASE ch = "&" -> "&amp;"
                      [] ch = "<" -> "&lt;"
                      [] ch = ">" -> "&gt;"
                      [] OTHER    -> ch
         IN out \o EscapeText(SubSeq(s, 2, Len(s)))

Element(tag, content) == "<" \o tag \o ">" \o content \o "</" \o tag \o ">"

RECURSIVE MarshalFields(_)
RECURSIVE MarshalSlice(_, _)
MarshalField(f) ==
    CASE f.kind = "string" ->
           IF f.omitempty /\ f.val = "" THEN "" ELSE Element(f.tag, EscapeText(f.val))
      [] f.kind = "int" ->
           IF f.omitempty /\ f.val = 0 THEN "" ELSE Element(f.tag, ToString(f.val))
      [] f.kind = "struct" -> Element(f.tag, MarshalFields(f.val))
      [] f.kind = "slice" -> MarshalSlice(f.tag, f.val)

MarshalFields(fs) ==
    IF fs = <<>> THEN "" ELSE MarshalField(Head(fs)) \o MarshalFields(Tail(fs))

MarshalSlice(tag, elems) ==
    IF elems = <<>> THEN ""
    ELSE Element(tag, MarshalFields(Head(elems))) \o MarshalSlice(tag, Tail(elems))

MarshalError == [src |-> "xml.Marshal", msg |-> "xml: unsupported type"]

Marshal(v) ==
    IF v.type = "chan"
    THEN [err |-> MarshalError, data |-> ""]
    ELSE [err |-> Nil, data |-> Element(v.type, MarshalFields(v.fields))]

\* ------------------------------------------------------ the request structs
MeterValue == <<>>

BootNotificationRequest(chargeBoxIdentity) ==
    Struct("BootNotificationRequest",
           <<Field("chargeBoxIdentity", "string", chargeBoxIdentity, FALSE)>>)

HeartbeatRequest == Struct("HeartbeatRequest", <<>>)

AuthorizeRequest(idTag) ==
    Struct("AuthorizeRequest", <<Field("idTag", "string", idTag, FALSE)>>)

StartTransactionRequest(connectorId, idTag) ==
    Struct("StartTransactionRequest",
           <<Field("connectorId", "int", connectorId, FALSE),
             Field("idTag", "string", idTag, FALSE)>>)

StopTransactionRequest(transactionId) ==
    Struct("StopTransactionRequest",
           <<Field("transactionId", "int", transactionId, FALSE)>>)

\* The struct is used at lines 150-152 and declared nowhere in the source:
\* its one field, Values, is encoded under Go's default element name.
MeterValuesRequest(values) ==
    Struct("MeterValuesRequest", <<Field("Values", "slice", values, FALSE)>>)

Status(errorCode, statusDetail) ==
    <<Field("errorCode", "string", errorCode, TRUE),
      Field("statusDetail", "string", statusDetail, TRUE)>>

StatusNotificationRequest(status) ==
    Struct("StatusNotificationRequest", <<Field("status", "struct", status, FALSE)>>)

DataTransferRequest(vendorId, messageData) ==
    Struct("DataTransferRequest",
           <<Field("vendorId", "string", vendorId, FALSE),
             Field("messageData", "string", messageData, FALSE)>>)

\* ----------------------------------------------------- the response structs
\* A response struct as xml.Unmarshal sees it: the element paths it reads
\* (a nested struct's fields under its own element) and each one's kind.
Slot(path, kind) == [path |-> path, kind |-> kind]

BootNotificationResponse ==
    {Slot("status", "string"), Slot("currentTime", "string"),
     Slot("interval", "int"), Slot("heartbeat", "int")}

HeartbeatResponse == {Slot("currentTime", "string")}

IdTagInfo ==
    {Slot("idTagInfo/status", "string"), Slot("idTagInfo/expiryDate", "ptr"),
     Slot("idTagInfo/parentIdTag", "ptr")}

AuthorizeResponse == IdTagInfo

StartTransactionResponse == {Slot("transactionId", "int")}

StopTransactionResponse == {Slot("status", "string")}

MeterValuesResponse == {Slot("status", "string")}

StatusNotificationResponse ==
    {Slot("status/errorCode", "string"), Slot("status/statusDetail", "string")}

DataTransferResponse == {Slot("status", "string"), Slot("data", "string")}

\* ---------------------------------------------------------- xml.Unmarshal
\* A response body: whether it is well-formed XML with a root element, and
\* the text of each element under the root, by path.
Doc(elems) == [wf |-> TRUE, elems |-> elems]

Malformed == [wf |-> FALSE, elems |-> {}]

Has(body, path) == \E e \in body.elems : e[1] = path

Text(body, path) == (CHOOSE e \in body.elems : e[1] = path)[2]

\* strconv's decimal parse, as the inverse of the decimal format.
IsNumeral(text) == \E n \in 0..MaxInt : ToString(n) = text

Atoi(text) == CHOOSE n \in 0..MaxInt : ToString(n) = text

ZeroOf(kind) ==
    CASE kind = "string" -> ""
      [] kind = "int"    -> 0
      [] kind = "ptr"    -> Nil

Zero(shape) ==
    [p \in {s.path : s \in shape} |-> ZeroOf((CHOOSE s \in shape : s.path = p).kind)]

Decode(body, slot) ==
    IF ~Has(body, slot.path) THEN ZeroOf(slot.kind)
    ELSE CASE slot.kind = "string" -> Text(body, slot.path)
           [] slot.kind = "int"    -> Atoi(Text(body, slot.path))
           [] slot.kind = "ptr"    -> [ptr |-> Text(body, slot.path)]

SyntaxError == [src |-> "xml.Unmarshal", msg |-> "XML syntax error"]

NumError == [src |-> "xml.Unmarshal", msg |-> "strconv.ParseInt: invalid syntax"]

UnmarshalClosedVocabulary(body, shape) ==
    IF ~body.wf THEN [err |-> SyntaxError, value |-> Zero(shape)]
    ELSE IF \E s \in shape : s.kind = "int" /\ Has(body, s.path)
                                /\ ~IsNumeral(Text(body, s.path))
    THEN [err |-> NumError, value |-> Zero(shape)]
    ELSE [err |-> Nil,
          value |-> [p \in {s.path : s \in shape} |->
                       LET v == Decode(body, CHOOSE s \in shape : s.path = p)
                       IN IF p \in {"status", "idTagInfo/status"}
                             /\ v \notin RegistrationStatus \cup AuthorizationStatus
                          THEN "Rejected" ELSE v]]

\* The holder of a failed decode is left at its zero value here: the elements
\* decoded before the failing one are not modelled, and every entry point
\* discards the holder when sendRequest fails.
Unmarshal(body, shape) ==
    IF ~body.wf THEN [err |-> SyntaxError, value |-> Zero(shape)]
    ELSE IF \E s \in shape : s.kind = "int" /\ Has(body, s.path)
                                /\ ~IsNumeral(Text(body, s.path))
    THEN [err |-> NumError, value |-> Zero(shape)]
    ELSE [err |-> Nil,
          value |-> [p \in {s.path : s \in shape} |->
                       Decode(body, CHOOSE s \in shape : s.path = p)]]

\* ------------------------------------------------------------ the transport
StatusOKCode == 200

\* The status codes the remote party answers with, and their status lines.
Codes == {200, 201, 404}

StatusLine(code) ==
    ToString(code) \o " " \o
        (CASE code = 200 -> "OK" [] code = 201 -> "Created" [] code = 404 -> "Not Found")

\* A body with every element some response struct reads, all in vocabulary.
Accepted ==
    Doc({<<"status", "Accepted">>, <<"currentTime", "2024-01-01T00:00:00Z">>,
         <<"interval", "300">>, <<"idTagInfo/status", "Accepted">>,
         <<"idTagInfo/expiryDate", "2025-01-01T00:00:00Z">>,
         <<"transactionId", "42">>, <<"data", "d">>})

PendingBlocked == Doc({<<"status", "Pending">>, <<"idTagInfo/status", "Blocked">>})

Bogus == Doc({<<"status", "Bogus">>, <<"idTagInfo/status", "Bogus">>})

BadInt ==
    Doc({<<"status", "Accepted">>, <<"interval", "abc">>, <<"transactionId", "abc">>})

EmptyDoc == Doc({})

Bodies == {Accepted, PendingBlocked, Bogus, BadInt, EmptyDoc, Malformed}

\* What the transport hands back to Post: an error, or a response with its
\* status code, status line, body, and whether the body can be read to its end.
TransportFailure ==
    [kind |-> "err", code |-> 0, status |-> "", readOK |-> FALSE, body |-> Malformed]

Response(code, readOK, body) ==
    [kind |-> "resp", code |-> code, status |-> StatusLine(code), readOK |-> readOK,
     body |-> body]

Replies ==
    {TransportFailure}
        \cup {Response(StatusOKCode, TRUE, b) : b \in Bodies}
        \cup {Response(StatusOKCode, FALSE, Accepted)}
        \cup {Response(code, TRUE, Accepted) : code \in Codes \ {StatusOKCode}}

\* -------------------------------------------------------------- the state
VARIABLES
    endpoint,   \* Client.endpoint
    client,     \* Client.client, the HTTP client handle
    logger,     \* Client.logger
    ctor,       \* history: the arguments NewClient was given
    lastSet,    \* history: the handle the latest SetHTTPClient was given
    pc,         \* each goroutine's place: idle, post, inflight, returned, panicked
    frame,      \* each goroutine's current call: entry point, arguments, request, holder
    seen,       \* the values Client.client held since the call began
    overlap,    \* history: a SetHTTPClient ran between the call's start and its Post
    via,        \* the handle the call's POST is in flight on
    posted,     \* the request the call posted
    posts,      \* the number of POSTs the call made
    inFlight,   \* per handle, the number of POSTs in flight
    reply,      \* what the transport answered
    out,        \* what sendRequest did and returned
    ret,        \* what the entry point returned
    startedTx   \* history: StartTransaction has been called on this Client

vars ==
    <<endpoint, client, logger, ctor, lastSet, pc, frame, seen, overlap, via,
      posted, posts, inFlight, reply, out, ret, startedTx>>

NoFrame ==
    [entry |-> "", args |-> Nil, action |-> "", request |-> HeartbeatRequest,
     holder |-> {}, pair |-> FALSE, url |-> "", data |-> ""]

NoOut ==
    [err |-> Nil, holder |-> Nil, logged |-> <<>>, panic |-> FALSE, read |-> FALSE,
     decoded |-> FALSE, closes |-> 0]

NoRet == [resp |-> Nil, err |-> Nil]

NoReply == [kind |-> "none", code |-> 0, status |-> "", readOK |-> FALSE, body |-> Malformed]

Init ==
    /\ \E ep \in Endpoints, lg \in GivenLoggers :
          /\ ctor = [endpoint |-> ep, logger |-> lg]
          /\ endpoint = NewClient(ep, lg).endpoint
          /\ client = NewClient(ep, lg).client
          /\ logger = NewClient(ep, lg).logger
    /\ lastSet = "never"
    /\ pc = [c \in Callers |-> "idle"]
    /\ frame = [c \in Callers |-> NoFrame]
    /\ seen = [c \in Callers |-> {}]
    /\ overlap = [c \in Callers |-> FALSE]
    /\ via = [c \in Callers |-> ""]
    /\ posted = [c \in Callers |-> Nil]
    /\ posts = [c \in Callers |-> 0]
    /\ inFlight = [t \in Transports |-> 0]
    /\ reply = [c \in Callers |-> NoReply]
    /\ out = [c \in Callers |-> NoOut]
    /\ ret = [c \in Callers |-> NoRet]
    /\ startedTx = FALSE

\* ----------------------------------------------------------- sendRequest
\* c.logger.Error(msg): the event the logger is handed; a nil logger panics.
LogError(lg, msg) ==
    IF lg = "nil"
    THEN [panic |-> TRUE, events |-> <<>>]
    ELSE [panic |-> FALSE, events |-> <<[logger |-> lg, level |-> "error", msg |-> msg]>>]

URLNoSeparator(ep, action) == ep \o action

URL(ep, action) == ep \o "/" \o action

ContentType == "application/xml"

StatusOKAny2xx(code) == code \in 200..299

StatusOK(code) == code = StatusOKCode

Failure(lg, err, msg, read, decoded, shape) ==
    LET l == LogError(lg, msg)
    IN [err |-> err, holder |-> Zero(shape), logged |-> l.events, panic |-> l.panic,
        read |-> read, decoded |-> decoded, closes |-> 0]

TransportError == [src |-> "http.Client.Post", msg |-> "transport error"]

ReadError == [src |-> "ioutil.ReadAll", msg |-> "unexpected EOF"]

StatusMsg(rp) == "non-200 status code received: " \o rp.status

\* Lines 69-86, the part of sendRequest that runs with the response in hand.
AfterStatus(lg, rp, shape) ==
    IF ~StatusOK(rp.code)
    THEN Failure(lg, [src |-> "errors.New", msg |-> StatusMsg(rp)], StatusMsg(rp),
                 FALSE, FALSE, shape)
    ELSE IF ~rp.readOK
    THEN Failure(lg, ReadError, "failed to read response body", TRUE, FALSE, shape)
    ELSE LET u == Unmarshal(rp.body, shape)
         IN IF u.err # Nil
            THEN Failure(lg, u.err, "failed to unmarshal response XML", TRUE, TRUE, shape)
            ELSE [err |-> Nil, holder |-> u.value, logged |-> <<>>, panic |-> FALSE,
                  read |-> TRUE, decoded |-> TRUE, closes |-> 0]

CloseOnSuccessOnly(r) == IF r.err = Nil THEN [r EXCEPT !.closes = @ + 1] ELSE r

\* Line 67: defer resp.Body.Close() runs once, on every return after it.
Deferred(r) == [r EXCEPT !.closes = @ + 1]

\* Lines 63-87: sendRequest from the return of Post on.
AfterPost(lg, rp, shape) ==
    IF rp.kind = "err"
    THEN Failure(lg, TransportError, "failed to send HTTP request", FALSE, FALSE, shape)
    ELSE Deferred(AfterStatus(lg, rp, shape))

EntryReturnKeepsResponse(fr, o) ==
    [resp |-> IF fr.pair THEN [ptr |-> o.holder] ELSE Nil, err |-> o.err]

\* The return of an entry point: (nil, err) or (response, nil) for the six
\* that return a response, err alone for the others and for sendRequest.
EntryReturn(fr, o) ==
    IF o.err # Nil
    THEN [resp |-> Nil, err |-> o.err]
    ELSE [resp |-> IF fr.pair THEN [ptr |-> o.holder] ELSE Nil, err |-> Nil]

\* The handle the latest completed SetHTTPClient gave, the default if none.
LatestSet == IF lastSet = "never" THEN DefaultHTTPClient ELSE lastSet

\* An entry point builds its request and calls sendRequest, which encodes it
\* and builds the address (lines 55-61); an encoding failure returns at once.
BeginWith(c, fr, m) ==
    /\ pc[c] \in {"idle", "returned"}
    /\ \A d \in Callers : pc[d] # "panicked"
    /\ LET o == Failure(logger, m.err, "failed to marshal request XML", FALSE, FALSE,
                        fr.holder)
       IN /\ IF m.err # Nil
             THEN /\ frame' = [frame EXCEPT ![c] = [fr EXCEPT !.url = "", !.data = ""]]
                  /\ pc' = [pc EXCEPT ![c] = IF o.panic THEN "panicked" ELSE "returned"]
                  /\ out' = [out EXCEPT ![c] = o]
                  /\ ret' = [ret EXCEPT ![c] = EntryReturn(fr, o)]
                  /\ seen' = [seen EXCEPT ![c] = {}]
             ELSE /\ frame' = [frame EXCEPT ![c] =
                                  [fr EXCEPT !.url = URL(endpoint, fr.action),
                                             !.data = m.data]]
                  /\ pc' = [pc EXCEPT ![c] = "post"]
                  /\ out' = [out EXCEPT ![c] = NoOut]
                  /\ ret' = [ret EXCEPT ![c] = NoRet]
                  /\ seen' = [seen EXCEPT ![c] = {client}]
    /\ overlap' = [overlap EXCEPT ![c] = FALSE]
    /\ posted' = [posted EXCEPT ![c] = Nil]
    /\ posts' = [posts EXCEPT ![c] = 0]
    /\ reply' = [reply EXCEPT ![c] = NoReply]
    /\ startedTx' = (startedTx \/ fr.entry = "StartTransaction")
    /\ UNCHANGED <<endpoint, client, logger, ctor, lastSet, via, inFlight>>

Begin(c, fr) == BeginWith(c, fr, Marshal(fr.request))

Call(entry, args, request, holder, pair) ==
    [entry |-> entry, args |-> args, action |-> entry, request |-> request,
     holder |-> holder, pair |-> pair, url |-> "", data |-> ""]

\* ------------------------------------------------------- the entry points
Ids == {"CP-001", "CP-002"}

IdTags == {"TAG&1"}

ConnectorIds == {1}

TransactionIds == {42}

MeterValueLists == {<<MeterValue, MeterValue>>}

Statuses == {Status("GenericError", "a<b")}

BootNotification(c) ==
    \E chargeBoxIdentity \in Ids :
        Begin(c, Call("BootNotification", [chargeBoxIdentity |-> chargeBoxIdentity],
                      BootNotificationRequest(chargeBoxIdentity),
                      BootNotificationResponse, TRUE))

Heartbeat(c) ==
    Begin(c, Call("Heartbeat", Nil, HeartbeatRequest, HeartbeatResponse, TRUE))

Authorize(c) ==
    \E idTag \in IdTags :
        Begin(c, Call("Authorize", [idTag |-> idTag], AuthorizeRequest(idTag),
                      AuthorizeResponse, TRUE))

StartTransaction(c) ==
    \E connectorId \in ConnectorIds, idTag \in IdTags :
        Begin(c, Call("StartTransaction", [connectorId |-> connectorId, idTag |-> idTag],
                      StartTransactionRequest(connectorId, idTag),
                      StartTransactionResponse, TRUE))

StopTransactionNeedsStart(c) ==
    \E transactionId \in TransactionIds :
        LET fr == Call("StopTransaction", [transactionId |-> transactionId],
                       StopTransactionRequest(transactionId),
                       StopTransactionResponse, TRUE)
        IN IF startedTx
           THEN Begin(c, fr)
           ELSE BeginWith(c, fr, [err |-> [src |-> "StopTransaction",
                                           msg |-> "no transaction started"],
                                  data |-> ""])

StopTransaction(c) ==
    \E transactionId \in TransactionIds :
        Begin(c, Call("StopTransaction", [transactionId |-> transactionId],
                      StopTransactionRequest(transactionId),
                      StopTransactionResponse, TRUE))

MeterValues(c) ==
    \E values \in MeterValueLists :
        Begin(c, Call("MeterValues", [values |-> values], MeterValuesRequest(values),
                      MeterValuesResponse, FALSE))

StatusNotification(c) ==
    \E status \in Statuses :
        Begin(c, Call("StatusNotification", [status |-> status],
                      StatusNotificationRequest(status),
                      StatusNotificationResponse, FALSE))

DataTransfer(c) ==
    \E vendorId \in {"V"}, messageData \in {"m"} :
        Begin(c, Call("DataTransfer", [vendorId |-> vendorId, messageData |-> messageData],
                      DataTransferRequest(vendorId, messageData),
                      DataTransferResponse, TRUE))

\* A call of sendRequest itself, from inside the package, with a request
\* value encoding/xml cannot serialise: it fails at line 55.
SendRequest(c) ==
    \E request \in {Unsupported} :
        Begin(c, [Call("sendRequest", [request |-> request], request,
                       HeartbeatResponse, FALSE) EXCEPT !.action = "Heartbeat"])

\* ------------------------------------------------------------- the POST
\* Line 62: the POST goes out on the handle read from Client.client; the
\* read is not ordered with a concurrent SetHTTPClient, and sees any value
\* the field held since the call began.
Post(c) ==
    /\ pc[c] = "post"
    /\ \E t \in seen[c] :
          /\ via' = [via EXCEPT ![c] = t]
          /\ inFlight' = [inFlight EXCEPT ![t] = @ + 1]
    /\ pc' = [pc EXCEPT ![c] = "inflight"]
    /\ posted' = [posted EXCEPT ![c] =
                     [url |-> frame[c].url, contentType |-> ContentType,
                      body |-> frame[c].data]]
    /\ posts' = [posts EXCEPT ![c] = @ + 1]
    /\ seen' = [seen EXCEPT ![c] = {}]
    /\ overlap' = [overlap EXCEPT ![c] = FALSE]
    /\ UNCHANGED <<endpoint, client, logger, ctor, lastSet, frame, reply, out, ret,
                   startedTx>>

\* Post returns with the transport's answer and sendRequest runs to its
\* return (lines 63-87), then the entry point to its own.
ReplyWith(c, rp) ==
    LET o == AfterPost(logger, rp, frame[c].holder)
    IN /\ pc[c] = "inflight"
       /\ inFlight' = [inFlight EXCEPT ![via[c]] = @ - 1]
       /\ via' = [via EXCEPT ![c] = ""]
       /\ reply' = [reply EXCEPT ![c] = rp]
       /\ out' = [out EXCEPT ![c] = o]
       /\ ret' = [ret EXCEPT ![c] = EntryReturn(frame[c], o)]
       /\ pc' = [pc EXCEPT ![c] = IF o.panic THEN "panicked" ELSE "returned"]
       /\ UNCHANGED <<endpoint, client, logger, ctor, lastSet, frame, seen, overlap,
                      posted, posts, startedTx>>

ReplyRetriesTransportFailure(c) ==
    \E rp \in Replies :
        IF rp.kind = "err" /\ pc[c] = "inflight" /\ posts[c] < 2
        THEN /\ pc' = [pc EXCEPT ![c] = "post"]
             /\ inFlight' = [inFlight EXCEPT ![via[c]] = @ - 1]
             /\ via' = [via EXCEPT ![c] = ""]
             /\ seen' = [seen EXCEPT ![c] = {client}]
             /\ UNCHANGED <<endpoint, client, logger, ctor, lastSet, frame, overlap,
                            posted, posts, reply, out, ret, startedTx>>
        ELSE ReplyWith(c, rp)

ReplyLeavesInFlight(c) ==
    \E rp \in Replies :
        LET o == AfterPost(logger, rp, frame[c].holder)
        IN /\ pc[c] = "inflight"
           /\ inFlight[via[c]] < 3
           /\ via' = [via EXCEPT ![c] = ""]
           /\ reply' = [reply EXCEPT ![c] = rp]
           /\ out' = [out EXCEPT ![c] = o]
           /\ ret' = [ret EXCEPT ![c] = EntryReturn(frame[c], o)]
           /\ pc' = [pc EXCEPT ![c] = "returned"]
           /\ UNCHANGED <<endpoint, client, logger, ctor, lastSet, frame, seen, overlap,
                          posted, posts, inFlight, startedTx>>

Reply(c) == \E rp \in Replies : ReplyWith(c, rp)

SetHTTPClientOnCopy(t) ==
    /\ \A d \in Callers : pc[d] # "panicked"
    /\ lastSet' = t
    /\ overlap' = [c \in Callers |-> overlap[c] \/ pc[c] = "post"]
    /\ UNCHANGED <<endpoint, client, logger, ctor, pc, frame, seen, via, posted, posts,
                   inFlight, reply, out, ret, startedTx>>

SetHTTPClient(t) ==
    /\ \A d \in Callers : pc[d] # "panicked"
    /\ client' = t
    /\ lastSet' = t
    /\ seen' = [c \in Callers |-> IF pc[c] = "post" THEN seen[c] \cup {t} ELSE seen[c]]
    /\ overlap' = [c \in Callers |-> overlap[c] \/ pc[c] = "post"]
    /\ UNCHANGED <<endpoint, logger, ctor, pc, frame, via, posted, posts, inFlight,
                   reply, out, ret, startedTx>>

Next ==
    \/ \E c \in Callers : BootNotification(c)
    \/ \E c \in Callers : Heartbeat(c)
    \/ \E c \in Callers : Authorize(c)
    \/ \E c \in Callers : StartTransaction(c)
    \/ \E c \in Callers : StopTransaction(c)
    \/ \E c \in Callers : MeterValues(c)
    \/ \E c \in Callers : StatusNotification(c)
    \/ \E c \in Callers : DataTransfer(c)
    \/ \E c \in Callers : SendRequest(c)
    \/ \E c \in Callers : Post(c)
    \/ \E c \in Callers : Reply(c)
    \/ \E t \in Transports : SetHTTPClient(t)

Spec == Init /\ [][Next]_vars

\* ------------------------------------------------------------ the claims
Returned(c) == pc[c] = "returned"

\* What the call was given, read off the inputs alone.
Encodes(c) == frame[c].request.type # "chan"

GotResponse(c) == reply[c].kind = "resp"

\* C1: a response whose status code is not 200 (201 and 404 included) makes
\* sendRequest return an error without reading or decoding the body, even a
\* body that is well-formed XML for the response shape.
C1_Non200IsFailure ==
    \A c \in Callers :
        Returned(c) /\ GotResponse(c) /\ reply[c].code # 200
            => /\ out[c].err # Nil
               /\ ret[c].err # Nil
               /\ ~out[c].read
               /\ ~out[c].decoded

C1_Witness ==
    \E c \in Callers :
        /\ Returned(c) /\ GotResponse(c) /\ reply[c].code = 201
        /\ reply[c].body = Accepted
        /\ frame[c].entry = "BootNotification"
        /\ ret[c].err # Nil /\ ~out[c].read

\* C2: an entry point that returns a response returns either a non-nil
\* response with a nil error or a nil response with a non-nil error, and the
\* response is non-nil exactly when encoding, POST, status check, body read
\* and decoding all succeeded.
C2_ResponseXorError ==
    \A c \in Callers :
        Returned(c) /\ frame[c].pair
            => /\ (ret[c].resp # Nil) <=> (ret[c].err = Nil)
               /\ (ret[c].resp # Nil)
                     <=> /\ Marshal(frame[c].request).err = Nil
                         /\ GotResponse(c)
                         /\ reply[c].code = 200
                         /\ reply[c].readOK
                         /\ Unmarshal(reply[c].body, frame[c].holder).err = Nil

C2_Witness ==
    \E c, d \in Callers :
        /\ Returned(c) /\ frame[c].pair /\ ret[c].resp # Nil /\ ret[c].err = Nil
        /\ Returned(d) /\ frame[d].pair /\ ret[d].resp = Nil /\ ret[d].err = NumError

C4_NoOverlap == Cardinality({c \in Callers : pc[c] = "inflight"}) <= 1

\* C4, amended: the Client holds no lock, so POSTs of concurrent callers may
\* overlap; each caller has at most one POST in flight, and the POSTs in
\* flight on a handle are exactly those of the callers transmitting on it.
C4_OnePostPerCaller ==
    /\ \A t \in Transports :
          inFlight[t] = Cardinality({c \in Callers : pc[c] = "inflight" /\ via[c] = t})
    /\ \A c \in Callers : pc[c] = "inflight" => posts[c] = 1

C4_Witness == \E t \in Transports : inFlight[t] = Cardinality(Callers)

\* C5: the request a call posts and the result it returns depend only on its
\* entry point, its arguments and the transport's reply, not on the calls
\* made before it: any two calls that agree on these agree on both.
C5_Stateless ==
    \A c, d \in Callers :
        /\ pc[c] \in {"inflight", "returned"}
        /\ pc[d] \in {"inflight", "returned"}
        /\ frame[c].entry = frame[d].entry
        /\ frame[c].args = frame[d].args
        => /\ posted[c] = posted[d]
           /\ Returned(c) /\ Returned(d) /\ reply[c] = reply[d]
                 => out[c] = out[d] /\ ret[c] = ret[d]

C5_Witness ==
    \E c, d \in Callers :
        /\ c # d
        /\ ~startedTx
        /\ Returned(c) /\ Returned(d)
        /\ frame[c].entry = "StopTransaction" /\ frame[d] = frame[c]
        /\ posts[c] = 1 /\ posts[d] = 1
        /\ reply[c] = reply[d] /\ ret[c].err = Nil /\ ret[d] = ret[c]

\* The status field of a returned response, and the element and vocabulary
\* it belongs to.
StatusPath(entry) == IF entry = "Authorize" THEN "idTagInfo/status" ELSE "status"

Vocabulary(entry) ==
    CASE entry = "BootNotification" -> RegistrationStatus
      [] entry = "Authorize"        -> AuthorizationStatus
      [] entry = "StopTransaction"  -> TransactionEventStatus
      [] entry = "DataTransfer"     -> DataTransferStatus

HasStatus(c) ==
    /\ Returned(c) /\ ret[c].err = Nil
    /\ frame[c].entry \in {"BootNotification", "Authorize", "StopTransaction", "DataTransfer"}

StatusOf(c) == ret[c].resp.ptr[StatusPath(frame[c].entry)]

\* C6, as claimed: the status of a successful response is in its vocabulary.
C6_StatusInVocabulary ==
    \A c \in Callers : HasStatus(c) => StatusOf(c) \in Vocabulary(frame[c].entry)

\* C6, amended: the status of a successful response is the status string of
\* the body, unchanged (empty when the body has no such element), in the
\* vocabulary exactly when the remote party's string is.
C6_StatusVerbatim ==
    \A c \in Callers :
        HasStatus(c)
            => LET path == StatusPath(frame[c].entry)
                   sent == {e[2] : e \in {e \in reply[c].body.elems : e[1] = path}}
               IN /\ sent = {} => StatusOf(c) = ""
                  /\ sent # {} => sent = {StatusOf(c)}
                  /\ StatusOf(c) \in Vocabulary(frame[c].entry)
                        <=> sent # {} /\ sent \subseteq Vocabulary(frame[c].entry)

C6_Witness ==
    \E c \in Callers :
        /\ HasStatus(c) /\ frame[c].entry = "StopTransaction"
        /\ reply[c].body = PendingBlocked
        /\ StatusOf(c) = "Pending"

\* The message the logger is handed for a failure, by the step that failed.
FailureMsg(c) ==
    IF ~Encodes(c) THEN "failed to marshal request XML"
    ELSE IF reply[c].kind = "err" THEN "failed to send HTTP request"
    ELSE IF reply[c].code # 200
    THEN "non-200 status code received: " \o reply[c].status
    ELSE IF ~reply[c].readOK THEN "failed to read response body"
    ELSE "failed to unmarshal response XML"

\* C7: a call that returns an error has handed the logger exactly one error
\* event, of the step that failed; a call that returns no error has handed it
\* none; with a nil logger given to NewClient the events go to the no-op
\* logger and no call panics.
C7_OneLogPerFailure ==
    \A c \in Callers :
        /\ pc[c] # "panicked"
        /\ Returned(c)
              => IF ret[c].err = Nil
                 THEN out[c].logged = <<>>
                 ELSE out[c].logged =
                         <<[logger |-> IF ctor.logger = "nil" THEN NopLogger
                                       ELSE ctor.logger,
                            level |-> "error",
                            msg |-> FailureMsg(c)]>>

C7_Witness ==
    \E c \in Callers :
        /\ ctor.logger = "nil"
        /\ Returned(c) /\ ret[c].err # Nil /\ reply[c].code = 404
        /\ out[c].logged =
              <<[logger |-> NopLogger, level |-> "error",
                 msg |-> "non-200 status code received: 404 Not Found"]>>

\* The request body each entry point's arguments call for.
RECURSIVE Copies(_, _)
Copies(n, s) == IF n = 0 THEN "" ELSE s \o Copies(n - 1, s)

Omitted(tag, text) ==
    IF text = "" THEN "" ELSE "<" \o tag \o ">" \o EscapeText(text) \o "</" \o tag \o ">"

ExpectedBody(entry, a) ==
    CASE entry = "BootNotification" ->
           "<BootNotificationRequest><chargeBoxIdentity>" \o EscapeText(a.chargeBoxIdentity)
               \o "</chargeBoxIdentity></BootNotificationRequest>"
      [] entry = "Heartbeat" -> "<HeartbeatRequest></HeartbeatRequest>"
      [] entry = "Authorize" ->
           "<AuthorizeRequest><idTag>" \o EscapeText(a.idTag) \o "</idTag></AuthorizeRequest>"
      [] entry = "StartTransaction" ->
           "<StartTransactionRequest><connectorId>" \o ToString(a.connectorId)
               \o "</connectorId><idTag>" \o EscapeText(a.idTag)
               \o "</idTag></StartTransactionRequest>"
      [] entry = "StopTransaction" ->
           "<StopTransactionRequest><transactionId>" \o ToString(a.transactionId)
               \o "</transactionId></StopTransactionRequest>"
      [] entry = "MeterValues" ->
           "<MeterValuesRequest>" \o Copies(Len(a.values), "<Values></Values>")
               \o "</MeterValuesRequest>"
      [] entry = "StatusNotification" ->
           "<StatusNotificationRequest><status>"
               \o Omitted("errorCode", a.status[1].val)
               \o Omitted("statusDetail", a.status[2].val)
               \o "</status></StatusNotificationRequest>"
      [] entry = "DataTransfer" ->
           "<DataTransferRequest><vendorId>" \o EscapeText(a.vendorId)
               \o "</vendorId><messageData>" \o EscapeText(a.messageData)
               \o "</messageData></DataTransferRequest>"

EntryPoints ==
    {"BootNotification", "Heartbeat", "Authorize", "StartTransaction", "StopTransaction",
     "MeterValues", "StatusNotification", "DataTransfer"}

\* C8: each entry point posts to the configured endpoint joined by one "/"
\* to its own action name, as application/xml, a body that carries exactly
\* the caller's arguments in the request fields of that action.
C8_PostsOwnAction ==
    \A c \in Callers :
        posted[c] # Nil /\ frame[c].entry \in EntryPoints
            => /\ posted[c].url = ctor.endpoint \o "/" \o frame[c].entry
               /\ posted[c].contentType = "application/xml"
               /\ posted[c].body = ExpectedBody(frame[c].entry, frame[c].args)

C8_Witness ==
    \E c \in Callers :
        /\ frame[c].entry = "BootNotification"
        /\ frame[c].args = [chargeBoxIdentity |-> "CP-001"]
        /\ posted[c] =
              [url |-> "http://cs.example/ocpp/BootNotification",
               contentType |-> "application/xml",
               body |-> "<BootNotificationRequest><chargeBoxIdentity>CP-001"
                            \o "</chargeBoxIdentity></BootNotificationRequest>"]

C10_BodyClosedOnce ==
    \A c \in Callers :
        Returned(c) => out[c].closes = (IF posts[c] = 1 /\ GotResponse(c) THEN 1 ELSE 0)

C10_Witness ==
    \E c, d \in Callers :
        /\ Returned(c) /\ GotResponse(c) /\ out[c].err = SyntaxError /\ out[c].closes = 1
        /\ Returned(d) /\ reply[d].kind = "err" /\ out[d].closes = 0

====
